---- MODULE Spec2Model ----
(***************************************************************************)
(* Model of goxel-curly's custom-model subsystem:                          *)
(*   - the model registry        (src/src/model_manager.c)                 *)
(*   - the mesh objects it holds (src/src/model3d.c)                       *)
(*   - the PNG slice compositor  (src/src/formats/png_slices.c)            *)
(***************************************************************************)
EXTENDS Integers, Sequences, FiniteSets, TLC

(***************************************************************************)
(* Bounds of the model.                                                    *)
(***************************************************************************)
\* Number of model3d_t objects the heap can hand out.
MaxMeshes == 2
\* g_model_manager.count is an int that only grows; calls stop at this value.
MaxCount == 3

\* Longest list of layers an image holds.
MaxLayers == 2
\* The most slices, stacks or grid lines a procedural mesh is asked for.
MaxSegments == 2
\* The most times a mesh's vertices are rewritten after its construction.
MaxEdits == 2

(***************************************************************************)
(* Program constants.                                                      *)
(***************************************************************************)
MODEL_MANAGER_MAX_MODELS == 256
NULL == 0
\* The cube is 6 faces of 6 vertices.
CUBE_NB_VERTICES == 36

\* A const char * that is NULL.
NoName == "<null>"

\* uint8_t model ids the callers of the model pass: the reserved id, the
\* first id (the one model_manager_load fills) and the last one.
Ids == {0, 1, MODEL_MANAGER_MAX_MODELS - 1}
\* Triangle counts tinyobj_parse_obj reports.
NumFaces == {0, 2}
\* Addresses of model3d_t objects.
Ptrs == 1..MaxMeshes
\* The slots of g_model_manager.models / names.
Slots == 0..(MODEL_MANAGER_MAX_MODELS - 1)

VARIABLES
    initialized,    \* g_model_manager.initialized
    models,         \* g_model_manager.models[256]
    names,          \* g_model_manager.names[256]
    count,          \* g_model_manager.count
    heap,           \* the model3d_t objects, by address
    gl_buffers,     \* GPU buffer names generated and not deleted
    call,           \* the last call made: [op, id, model]
    ret,            \* what the last call returned
    \* export_as_png_slices (png_slices.c)
    box,            \* the image's box: half extents and centre, in quarters
    layers,         \* image->layers, in list order
    w, h, d,        \* the raster's dimensions
    start_pos,      \* the position of the raster's first cell
    img,            \* the raster: a pixel per cell index
    oob,            \* a write fell outside img
    layer,          \* DL_FOREACH: the index of the layer at hand
    material_alpha, \* of the layer at hand
    x, y, z,        \* the cell at hand
    pc,             \* where export_as_png_slices is
    out,            \* what was handed to img_write and written as JSON
    \* one mesh and the GL context it is drawn in (model3d.c)
    mesh,           \* the model3d_t
    vdata,          \* the contents of mesh->vertices
    gpu,            \* the GL buffer objects: name -> [used, data]
    glstate,        \* the GL context's capabilities and cull face
    mcall           \* the last call on the mesh, with the draw call it made

regvars == <<initialized, models, names, count>>
meshvars == <<heap, gl_buffers>>
apivars == <<initialized, models, names, count, heap, gl_buffers, call, ret>>
slicevars == <<box, layers, w, h, d, start_pos, img, oob, layer,
               material_alpha, x, y, z, pc, out>>
rendervars == <<mesh, vdata, gpu, glstate, mcall>>
vars == <<initialized, models, names, count, heap, gl_buffers, call, ret,
          box, layers, w, h, d, start_pos, img, oob, layer,
          material_alpha, x, y, z, pc, out,
          mesh, vdata, gpu, glstate, mcall>>

(***************************************************************************)
(* model3d_t objects.                                                      *)
(***************************************************************************)
\* Memory that holds no model3d_t (never allocated, or freed).
NoMesh(st) ==
    [st |-> st, nb_vertices |-> 0, vertices |-> FALSE, solid |-> FALSE,
     cull |-> FALSE, dirty |-> FALSE, vertex_buffer |-> 0]

\* calloc: the lowest address not handed out yet.
FreePtrs == {p \in Ptrs : heap[p].st = "unalloc"}
calloc == CHOOSE p \in FreePtrs : \A q \in FreePtrs : p <= q

LivePtrs == {p \in Ptrs : heap[p].st = "live"}

\* model3d_cube(): the object it returns.
model3d_cube ==
    [st |-> "live", nb_vertices |-> CUBE_NB_VERTICES, vertices |-> TRUE,
     solid |-> TRUE, cull |-> TRUE, dirty |-> TRUE, vertex_buffer |-> 0]

\* model3d_from_obj without the test of attrib.num_faces == 0.
model3d_from_obj_no_face_check(err, num_faces) ==
    IF err THEN NoMesh("null")
    ELSE [st |-> "live", nb_vertices |-> num_faces * 3, vertices |-> TRUE,
          solid |-> TRUE, cull |-> TRUE, dirty |-> TRUE, vertex_buffer |-> 0]

\* model3d_from_obj(): no object (st = "null", the NULL return) when the parse
\* fails or finds no face, else the object built from num_faces triangles.
model3d_from_obj(err, num_faces) ==
    IF err THEN NoMesh("null")
    ELSE IF num_faces = 0 THEN NoMesh("null")
    ELSE [st |-> "live", nb_vertices |-> num_faces * 3, vertices |-> TRUE,
          solid |-> TRUE, cull |-> TRUE, dirty |-> TRUE, vertex_buffer |-> 0]

\* glGenBuffers: an unused, non-zero buffer name.
glGenBuffers == CHOOSE b \in 1..(MaxMeshes + 1) : b \notin gl_buffers

Call(op, id, model) == [op |-> op, id |-> id, model |-> model]

(***************************************************************************)
(* The model registry (model_manager.c).                                   *)
(***************************************************************************)
\* static g_model_manager = {0}, and memset(&g_model_manager, 0, ...).
ZeroModels == [i \in Slots |-> NULL]
ZeroNames == [i \in Slots |-> NoName]

\* model_manager_init without its early return: it clears the table each time.
model_manager_init_always_clears ==
    /\ models' = ZeroModels
    /\ names' = ZeroNames
    /\ count' = 0
    /\ initialized' = TRUE
    /\ UNCHANGED slicevars
    /\ UNCHANGED rendervars
    /\ call' = Call("init", 0, NULL)
    /\ ret' = "void"
    /\ UNCHANGED meshvars

\* model_manager_init
model_manager_init ==
    /\ IF initialized
       THEN UNCHANGED regvars
       ELSE /\ models' = ZeroModels
            /\ names' = ZeroNames
            /\ count' = 0
            /\ initialized' = TRUE
    /\ UNCHANGED slicevars
    /\ UNCHANGED rendervars
    /\ call' = Call("init", 0, NULL)
    /\ ret' = "void"
    /\ UNCHANGED meshvars

\* model_manager_register keeping the model an occupied slot already holds.
RegisterResult_keeps_old(model_id, model) ==
    IF ~initialized THEN [ret |-> FALSE, models |-> models, count |-> count]
    ELSE IF model_id = 0 THEN [ret |-> FALSE, models |-> models, count |-> count]
    ELSE IF model_id >= MODEL_MANAGER_MAX_MODELS
    THEN [ret |-> FALSE, models |-> models, count |-> count]
    ELSE IF models[model_id] # NULL
    THEN [ret |-> TRUE, models |-> models, count |-> count]
    ELSE [ret |-> TRUE,
          models |-> [models EXCEPT ![model_id] = model],
          count |-> IF model # NULL THEN count + 1 ELSE count]

\* model_manager_register without the test of model_id == 0.
RegisterResult_accepts_zero(model_id, model) ==
    IF ~initialized THEN [ret |-> FALSE, models |-> models, count |-> count]
    ELSE IF model_id >= MODEL_MANAGER_MAX_MODELS
    THEN [ret |-> FALSE, models |-> models, count |-> count]
    ELSE [ret |-> TRUE,
          models |-> [models EXCEPT ![model_id] = model],
          count |-> IF model # NULL THEN count + 1 ELSE count]

\* model_manager_register: what it returns and what it leaves in the table
\* and in the count.
RegisterResult(model_id, model) ==
    IF ~initialized THEN [ret |-> FALSE, models |-> models, count |-> count]
    ELSE IF model_id = 0 THEN [ret |-> FALSE, models |-> models, count |-> count]
    ELSE IF model_id >= MODEL_MANAGER_MAX_MODELS
    THEN [ret |-> FALSE, models |-> models, count |-> count]
    ELSE [ret |-> TRUE,
          models |-> [models EXCEPT ![model_id] = model],
          count |-> IF model # NULL THEN count + 1 ELSE count]

\* model_manager_register, called with a model the caller holds (or NULL).
model_manager_register(model_id, model) ==
    /\ count < MaxCount
    /\ LET r == RegisterResult(model_id, model) IN
        /\ models' = r.models
        /\ count' = r.count
        /\ ret' = r.ret
    /\ UNCHANGED slicevars
    /\ UNCHANGED rendervars
    /\ call' = Call("register", model_id, model)
    /\ UNCHANGED <<initialized, names>>
    /\ UNCHANGED meshvars

\* model_manager_load; err and num_faces are what tinyobj_parse_obj reports
\* for Lightbulb.obj.
model_manager_load(err, num_faces) ==
    /\ count < MaxCount
    /\ UNCHANGED slicevars
    /\ UNCHANGED rendervars
    /\ call' = [op |-> "load", id |-> 1, model |-> NULL,
                err |-> err, num_faces |-> num_faces]
    /\ ret' = "void"
    /\ IF ~initialized
       THEN UNCHANGED <<regvars, meshvars>>
       ELSE LET obj == model3d_from_obj(err, num_faces) IN
            IF obj.st = "null"
            THEN UNCHANGED <<regvars, meshvars>>
            ELSE /\ FreePtrs # {}
                 /\ LET model == calloc
                        r == RegisterResult(1, model)
                    IN  /\ heap' = [heap EXCEPT ![model] = [obj EXCEPT !.cull = FALSE]]
                        /\ models' = r.models
                        /\ count' = r.count
                        /\ names' = [names EXCEPT ![1] = "Lightbulb"]
                 /\ UNCHANGED <<initialized, gl_buffers>>

\* model_manager_get: the pointer it returns.
model_manager_get_ret(model_id) ==
    IF ~initialized THEN NULL
    ELSE IF model_id = 0 \/ model_id >= MODEL_MANAGER_MAX_MODELS THEN NULL
    ELSE models[model_id]

\* model_manager_get initializing the registry when it finds it uninitialized.
model_manager_get_auto_init(model_id) ==
    /\ UNCHANGED slicevars
    /\ UNCHANGED rendervars
    /\ call' = Call("get", model_id, NULL)
    /\ ret' = model_manager_get_ret(model_id)
    /\ initialized' = TRUE
    /\ UNCHANGED <<models, names, count, meshvars>>

\* model_manager_get
model_manager_get(model_id) ==
    /\ UNCHANGED slicevars
    /\ UNCHANGED rendervars
    /\ call' = Call("get", model_id, NULL)
    /\ ret' = model_manager_get_ret(model_id)
    /\ UNCHANGED <<regvars, meshvars>>

\* model_manager_get_count: the int it returns.
model_manager_get_count_ret ==
    IF ~initialized THEN 0 ELSE count

\* model_manager_get_count
model_manager_get_count ==
    /\ UNCHANGED slicevars
    /\ UNCHANGED rendervars
    /\ call' = Call("get_count", 0, NULL)
    /\ ret' = model_manager_get_count_ret
    /\ UNCHANGED <<regvars, meshvars>>

\* model_manager_get_name: the string it returns.
model_manager_get_name_ret(model_id) ==
    IF ~initialized THEN NoName
    ELSE IF model_id = 0 THEN "Cube"
    ELSE IF model_id >= MODEL_MANAGER_MAX_MODELS THEN NoName
    ELSE names[model_id]

\* gui_model_panel: the ids whose name it finds, in the order of its loop.
NamedIds ==
    {i \in 1..(MODEL_MANAGER_MAX_MODELS - 1) : model_manager_get_name_ret(i) # NoName}

\* gui_model_panel: the number of grid entries it allocates.
nb_models == 1 + model_manager_get_count_ret

\* gui_model_panel: the number of grid entries it has filled when its loop
\* ends (grid_idx): the cube's, and one per named id while entries are left.
grid_idx ==
    IF Cardinality(NamedIds) < nb_models - 1
    THEN 1 + Cardinality(NamedIds)
    ELSE nb_models

\* model_manager_free with a loop that stops one slot early.
model_manager_free_short_loop ==
    /\ IF ~initialized
       THEN UNCHANGED regvars
       ELSE /\ models' = [i \in Slots |->
                            IF i >= 1 /\ i < MODEL_MANAGER_MAX_MODELS - 1 /\ models[i] # NULL
                            THEN NULL ELSE models[i]]
            /\ initialized' = FALSE
            /\ count' = 0
            /\ UNCHANGED names
    /\ UNCHANGED slicevars
    /\ UNCHANGED rendervars
    /\ call' = Call("free", 0, NULL)
    /\ ret' = "void"
    /\ UNCHANGED meshvars

\* model_manager_free
model_manager_free ==
    /\ IF ~initialized
       THEN UNCHANGED regvars
       ELSE /\ models' = [i \in Slots |->
                            IF i >= 1 /\ i < MODEL_MANAGER_MAX_MODELS /\ models[i] # NULL
                            THEN NULL ELSE models[i]]
            /\ initialized' = FALSE
            /\ count' = 0
            /\ UNCHANGED names
    /\ UNCHANGED slicevars
    /\ UNCHANGED rendervars
    /\ call' = Call("free", 0, NULL)
    /\ ret' = "void"
    /\ UNCHANGED meshvars

(***************************************************************************)
(* What the registry's callers do with meshes (model3d.c).                 *)
(***************************************************************************)
\* A caller builds a cube: model3d_cube().
NewCube ==
    /\ FreePtrs # {}
    /\ heap' = [heap EXCEPT ![calloc] = model3d_cube]
    /\ UNCHANGED slicevars
    /\ UNCHANGED rendervars
    /\ call' = Call("cube", 0, calloc)
    /\ ret' = calloc
    /\ UNCHANGED <<regvars, gl_buffers>>

\* A caller renders a mesh of the heap: what model3d_render does to the
\* mesh and to the GPU buffer names (the GL context is not part of the
\* registry's state).
RenderRegistered(p) ==
    /\ heap[p].st = "live"
    /\ IF heap[p].dirty
       THEN LET vb == IF heap[p].vertex_buffer = 0 THEN glGenBuffers
                      ELSE heap[p].vertex_buffer
            IN  /\ gl_buffers' = gl_buffers \cup {vb}
                /\ heap' = [heap EXCEPT ![p].vertex_buffer = vb, ![p].dirty = FALSE]
       ELSE UNCHANGED meshvars
    /\ UNCHANGED slicevars
    /\ UNCHANGED rendervars
    /\ call' = Call("render", 0, p)
    /\ ret' = "void"
    /\ UNCHANGED regvars

(***************************************************************************)
(* IEEE-754 binary32 arithmetic on the non-negative floats, as the C code  *)
(* of the compositor uses it (float operands, round to nearest even; no    *)
(* value of the compositor is negative, subnormal or infinite).            *)
(* A float is <<m, e>> of value m * 2^e with 2^23 <= m < 2^24, or <<0, 0>>. *)
(***************************************************************************)
\* Bits of a float's significand.
FLT_MANT_DIG == 24

Pow2(n) == 2 ^ n

\* The number of bits of n > 0.
BitLen(n) == CHOOSE k \in 1..31 : Pow2(k - 1) <= n /\ (k = 31 \/ n < Pow2(k))

FZero == <<0, 0>>

\* The float nearest to M * 2^e (+ a non-zero fraction of 2^e below it when
\* sticky), ties to even.
FRound(M, e, sticky) ==
    IF M = 0 THEN FZero
    ELSE LET n == BitLen(M) IN
         IF n <= FLT_MANT_DIG
         THEN <<M * Pow2(FLT_MANT_DIG - n), e - (FLT_MANT_DIG - n)>>
         ELSE LET s == n - FLT_MANT_DIG
                  q == M \div Pow2(s)
                  r == M % Pow2(s)
                  half == Pow2(s - 1)
                  up == r > half \/ (r = half /\ (sticky \/ q % 2 = 1))
                  q1 == IF up THEN q + 1 ELSE q
              IN  IF q1 = Pow2(FLT_MANT_DIG)
                  THEN <<Pow2(FLT_MANT_DIG - 1), e + s + 1>>
                  ELSE <<q1, e + s>>

\* (float)n for an int n >= 0.
FFromInt(n) == FRound(n, 0, FALSE)

FOne == FFromInt(1)
\* 0.5f
FHalf == <<Pow2(FLT_MANT_DIG - 1), -FLT_MANT_DIG>>

\* a * b
FMul(a, b) ==
    IF a[1] = 0 \/ b[1] = 0 THEN FZero
    ELSE LET ah == a[1] \div 4096
             al == a[1] % 4096
             bh == b[1] \div 4096
             bl == b[1] % 4096
             mid == ah * bl + al * bh
             low24 == (mid % 4096) * 4096 + al * bl
             low == low24 % 16777216
             high == ah * bh + (mid \div 4096) + (low24 \div 16777216)
             \* the product is high * 2^24 + low; keep its top 28 bits
             top == high * 16 + (low \div 1048576)
         IN  FRound(top, a[2] + b[2] + 20, (low % 1048576) # 0)

\* The quotient bits of a long division: q and the remainder r after n
\* more steps of r / b.
RECURSIVE DivBits(_, _, _, _)
DivBits(q, r, b, n) ==
    IF n = 0 THEN <<q, r>>
    ELSE LET r2 == 2 * r IN
         IF r2 >= b THEN DivBits(2 * q + 1, r2 - b, b, n - 1)
         ELSE DivBits(2 * q, r2, b, n - 1)

\* a / b, b # 0
FDiv(a, b) ==
    IF a[1] = 0 THEN FZero
    ELSE LET qr == DivBits(a[1] \div b[1], a[1] % b[1], b[1], 26)
         IN  FRound(qr[1], a[2] - b[2] - 26, qr[2] # 0)

\* n shifted right by k bits: <<the bits kept, whether a bit was lost>>.
ShiftRight(n, k) ==
    IF k >= 31 THEN <<0, n # 0>>
    ELSE <<n \div Pow2(k), (n % Pow2(k)) # 0>>

\* a + b
FAdd(a, b) ==
    IF a[1] = 0 THEN b
    ELSE IF b[1] = 0 THEN a
    ELSE LET hi == IF a[2] >= b[2] THEN a ELSE b
             lo == IF a[2] >= b[2] THEN b ELSE a
             sh == ShiftRight(lo[1] * 8, hi[2] - lo[2])
         IN  FRound(hi[1] * 8 + sh[1], hi[2] - 3, sh[2])

\* a - b, for a >= b
FSub(a, b) ==
    IF b[1] = 0 THEN a
    ELSE LET sh == ShiftRight(b[1] * 8, a[2] - b[2])
             diff == a[1] * 8 - sh[1]
         IN  IF sh[2] THEN FRound(diff - 1, a[2] - 3, TRUE)
             ELSE FRound(diff, a[2] - 3, FALSE)

\* a > 0
FPositive(a) == a[1] > 0

\* The integer part of a.
FTrunc(a) ==
    IF a[1] = 0 THEN 0
    ELSE IF a[2] >= 0 THEN a[1] * Pow2(a[2])
    ELSE IF -a[2] >= 31 THEN 0
    ELSE a[1] \div Pow2(-a[2])

\* (uint8_t)a: the integer part when it fits; a conversion out of range is
\* undefined and may give any value.
FToUint8(a) ==
    IF a[1] # 0 /\ a[2] >= 0 THEN 0..255
    ELSE IF FTrunc(a) <= 255 THEN {FTrunc(a)}
    ELSE 0..255

(***************************************************************************)
(* The PNG slice compositor (png_slices.c).                                *)
(***************************************************************************)
\* 255.0f
F255 == FFromInt(255)

\* (int)(n / k) for k > 0: C truncates towards zero.
TruncDiv(n, k) == IF n >= 0 THEN n \div k ELSE -((-n) \div k)

\* Boxes: half extents he (box[0][0], box[1][1], box[2][2]) and centre c
\* (box[3]), in quarters of a voxel.
Boxes ==
    { [he |-> <<2, 2, 2>>, c |-> <<2, 2, 2>>],      \* 1 x 1 x 1 at (0, 0, 0)
      [he |-> <<4, 4, 6>>, c |-> <<0, 2, 0>>],      \* 2 x 2 x 3 at (-1, 0, -1)
      [he |-> <<3, 2, 2>>, c |-> <<3, 2, 2>>],      \* 0.75 wide: 1 x 1 x 1
      [he |-> <<0, 2, 2>>, c |-> <<0, 2, 2>>],      \* no width
      [he |-> <<-2, -2, 2>>, c |-> <<0, 0, 2>>] }   \* negative extents

\* The volumes a layer may hold; "NULL" is no volume.
Volumes == {"red", "green", "sparse"}

\* volume_get_at: the voxel of a volume at a position, as <<r, g, b, a>>.
volume_get_at(volume, pos) ==
    CASE volume = "red" -> <<255, 0, 0, 255>>
      [] volume = "green" -> <<0, 255, 0, 255>>
      [] volume = "sparse" ->
            IF (pos[1] + pos[2] + pos[3]) % 2 = 0 THEN <<255, 80, 120, 128>>
            ELSE <<0, 0, 0, 0>>

\* layer->material: none, or one with base_color[3] in [0, 1].
NoMaterial == [present |-> FALSE, base_color3 |-> FZero]
Materials ==
    {NoMaterial} \cup {[present |-> TRUE, base_color3 |-> a] : a \in {FZero, FHalf, FOne}}

\* The layers an image may hold.
LayerKinds ==
    {[visible |-> FALSE, volume |-> "red", material |-> NoMaterial],
     [visible |-> TRUE, volume |-> "NULL", material |-> NoMaterial]}
    \cup {[visible |-> TRUE, volume |-> v, material |-> m] : v \in Volumes, m \in Materials}

LayerLists == UNION {[1..n -> LayerKinds] : n \in 0..MaxLayers}

\* calloc(n, 4): n zeroed pixels (none when n <= 0).
ZeroImg(n) == [i \in 0..(n - 1) |-> <<0, 0, 0, 0>>]

\* No export is running (the registry's specification).
SlicesIdle ==
    /\ box = [he |-> <<0, 0, 0>>, c |-> <<0, 0, 0>>]
    /\ layers = <<>>
    /\ w = 0 /\ h = 0 /\ d = 0
    /\ start_pos = <<0, 0, 0>>
    /\ img = ZeroImg(0)
    /\ oob = FALSE
    /\ layer = 0
    /\ material_alpha = FZero
    /\ x = 0 /\ y = 0 /\ z = 0
    /\ pc = "idle"
    /\ out = [png |-> <<0, 0>>, json |-> <<0, 0, 0>>]

\* export_as_png_slices is entered with an image.
SlicesStart ==
    /\ box \in Boxes
    /\ layers \in LayerLists
    /\ w = 0 /\ h = 0 /\ d = 0
    /\ start_pos = <<0, 0, 0>>
    /\ img = ZeroImg(0)
    /\ oob = FALSE
    /\ layer = 0
    /\ material_alpha = FZero
    /\ x = 0 /\ y = 0 /\ z = 0
    /\ pc = "start"
    /\ out = [png |-> <<0, 0>>, json |-> <<0, 0, 0>>]

\* The box's dimensions and first cell, and the zeroed raster.
SlicesBegin ==
    /\ UNCHANGED apivars
    /\ UNCHANGED rendervars
    /\ pc = "start"
    /\ LET w1 == TruncDiv(box.he[1], 2)
           h1 == TruncDiv(box.he[2], 2)
           d1 == TruncDiv(box.he[3], 2)
       IN  /\ w' = w1 /\ h' = h1 /\ d' = d1
           /\ img' = ZeroImg(w1 * h1 * d1)
    /\ start_pos' = [i \in 1..3 |-> TruncDiv(box.c[i] - box.he[i], 4)]
    /\ layer' = 1
    /\ pc' = "layers"
    /\ UNCHANGED <<box, layers, oob, material_alpha, x, y, z, out>>

\* DL_FOREACH(image->layers, layer): the i-th layer it visits.
DL_FOREACH_tail_first(i) == layers[Len(layers) + 1 - i]

DL_FOREACH(i) == layers[i]

\* The layers the loop passes over.
LayerSkipped_ignores_visible(l) == l.volume = "NULL"

LayerSkipped(l) == ~l.visible \/ l.volume = "NULL"

\* if (!layer->visible) continue; if (!layer->volume) continue;
SlicesLayerSkip ==
    /\ UNCHANGED apivars
    /\ UNCHANGED rendervars
    /\ pc = "layers"
    /\ layer <= Len(layers)
    /\ LayerSkipped(DL_FOREACH(layer))
    /\ layer' = layer + 1
    /\ UNCHANGED <<box, layers, w, h, d, start_pos, img, oob, material_alpha,
                   x, y, z, pc, out>>

\* The layer's material alpha; then the loops over z, y, x are entered, if
\* they have a cell to visit.
SlicesLayerEnter ==
    /\ UNCHANGED apivars
    /\ UNCHANGED rendervars
    /\ pc = "layers"
    /\ layer <= Len(layers)
    /\ ~LayerSkipped(DL_FOREACH(layer))
    /\ material_alpha' = IF DL_FOREACH(layer).material.present
                         THEN DL_FOREACH(layer).material.base_color3
                         ELSE FOne
    /\ x' = 0 /\ y' = 0 /\ z' = 0
    /\ IF d > 0 /\ h > 0 /\ w > 0
       THEN pc' = "voxels" /\ layer' = layer
       ELSE pc' = "layers" /\ layer' = layer + 1
    /\ UNCHANGED <<box, layers, w, h, d, start_pos, img, oob, out>>

\* The blend with the layer's material alpha left out of final_alpha.
BlendOutcomes_no_material_alpha(px, c, ma) ==
    LET final_alpha == FDiv(FFromInt(c[4]), F255)
        src_a == final_alpha
        dst_a == FDiv(FFromInt(px[4]), F255)
        rest == FSub(FOne, src_a)
        out_a == FAdd(src_a, FMul(dst_a, rest))
        chan(i) == FToUint8(FDiv(FAdd(FMul(FFromInt(c[i]), src_a),
                                      FMul(FMul(FFromInt(px[i]), dst_a), rest)),
                                 out_a))
    IN  IF FPositive(out_a)
        THEN {<<r, g, b, a>> : r \in chan(1), g \in chan(2), b \in chan(3),
                               a \in FToUint8(FMul(out_a, F255))}
        ELSE {px}

\* The alpha blend of voxel c, of a layer of material alpha ma, over pixel
\* px: the pixels the write may leave (one, unless a conversion overflows).
BlendOutcomes(px, c, ma) ==
    LET final_alpha == FMul(FDiv(FFromInt(c[4]), F255), ma)
        src_a == final_alpha
        dst_a == FDiv(FFromInt(px[4]), F255)
        rest == FSub(FOne, src_a)
        out_a == FAdd(src_a, FMul(dst_a, rest))
        chan(i) == FToUint8(FDiv(FAdd(FMul(FFromInt(c[i]), src_a),
                                      FMul(FMul(FFromInt(px[i]), dst_a), rest)),
                                 out_a))
    IN  IF FPositive(out_a)
        THEN {<<r, g, b, a>> : r \in chan(1), g \in chan(2), b \in chan(3),
                               a \in FToUint8(FMul(out_a, F255))}
        ELSE {px}

\* The cell index of (x, y, z) in the raster (idx / 4).
CellIndex_square_slices(cx, cy, cz) == cy * w * w + cz * w + cx

CellIndex(cx, cy, cz) == cy * w * d + cz * w + cx

\* One pass of the body of the loops over z, y, x.
SlicesVoxel ==
    /\ UNCHANGED apivars
    /\ UNCHANGED rendervars
    /\ pc = "voxels"
    /\ LET pos == <<x + start_pos[1], y + start_pos[2], z + start_pos[3]>>
           c == volume_get_at(DL_FOREACH(layer).volume, pos)
           idx == CellIndex(x, y, z)
       IN  IF c[4] = 0
           THEN UNCHANGED <<img, oob>>
           ELSE IF idx \in DOMAIN img
           THEN /\ \E px \in BlendOutcomes(img[idx], c, material_alpha) :
                      img' = [img EXCEPT ![idx] = px]
                /\ UNCHANGED oob
           ELSE oob' = TRUE /\ UNCHANGED img
    /\ IF x + 1 < w
       THEN x' = x + 1 /\ UNCHANGED <<y, z, pc, layer>>
       ELSE /\ x' = 0
            /\ IF y + 1 < h
               THEN y' = y + 1 /\ UNCHANGED <<z, pc, layer>>
               ELSE /\ y' = 0
                    /\ IF z + 1 < d
                       THEN z' = z + 1 /\ UNCHANGED <<pc, layer>>
                       ELSE z' = 0 /\ pc' = "layers" /\ layer' = layer + 1
    /\ UNCHANGED <<box, layers, w, h, d, start_pos, material_alpha, out>>

\* write_json_companion(json_path, width, height, depth, ...): the values
\* of the "width", "height" and "depth" keys.
write_json_companion(width, height, depth) == <<width, depth, height>>

\* img_write(img, w * d, h, 4, path) and the companion JSON file.
SlicesWrite ==
    /\ UNCHANGED apivars
    /\ UNCHANGED rendervars
    /\ pc = "layers"
    /\ layer > Len(layers)
    /\ out' = [png |-> <<w * d, h>>, json |-> write_json_companion(w, h, d)]
    /\ pc' = "done"
    /\ UNCHANGED <<box, layers, w, h, d, start_pos, img, oob, layer,
                   material_alpha, x, y, z>>

(***************************************************************************)
(* One mesh, from its construction to its deletion, and the GL context     *)
(* that model3d_render draws it in (model3d.c).                            *)
(***************************************************************************)
Segments == 1..MaxSegments

\* The other procedural constructors: the objects they return.
model3d_wire_cube ==
    [st |-> "live", nb_vertices |-> 6 * 8, vertices |-> TRUE,
     solid |-> FALSE, cull |-> TRUE, dirty |-> TRUE, vertex_buffer |-> 0]

\* model3d_sphere with one triangle's worth of vertices per quad.
model3d_sphere_half(slices, stacks) ==
    [st |-> "live", nb_vertices |-> slices * stacks * 3, vertices |-> TRUE,
     solid |-> FALSE, cull |-> TRUE, dirty |-> TRUE, vertex_buffer |-> 0]

model3d_sphere(slices, stacks) ==
    [st |-> "live", nb_vertices |-> slices * stacks * 6, vertices |-> TRUE,
     solid |-> FALSE, cull |-> TRUE, dirty |-> TRUE, vertex_buffer |-> 0]

model3d_grid(nx, ny) ==
    [st |-> "live", nb_vertices |-> (nx + ny + 2) * 2, vertices |-> TRUE,
     solid |-> FALSE, cull |-> FALSE, dirty |-> TRUE, vertex_buffer |-> 0]

model3d_line ==
    [st |-> "live", nb_vertices |-> 2, vertices |-> TRUE,
     solid |-> FALSE, cull |-> FALSE, dirty |-> TRUE, vertex_buffer |-> 0]

model3d_rect ==
    [st |-> "live", nb_vertices |-> 6, vertices |-> TRUE,
     solid |-> TRUE, cull |-> FALSE, dirty |-> TRUE, vertex_buffer |-> 0]

model3d_wire_rect ==
    [st |-> "live", nb_vertices |-> 8, vertices |-> TRUE,
     solid |-> FALSE, cull |-> FALSE, dirty |-> TRUE, vertex_buffer |-> 0]

model3d_cone ==
    [st |-> "live", nb_vertices |-> 2 * 3 * 8, vertices |-> TRUE,
     solid |-> TRUE, cull |-> FALSE, dirty |-> TRUE, vertex_buffer |-> 0]

\* The calls of the procedural constructors, with what they return.
ProceduralMeshes ==
    {[op |-> "model3d_cube", args |-> <<>>, model |-> model3d_cube],
     [op |-> "model3d_wire_cube", args |-> <<>>, model |-> model3d_wire_cube],
     [op |-> "model3d_line", args |-> <<>>, model |-> model3d_line],
     [op |-> "model3d_rect", args |-> <<>>, model |-> model3d_rect],
     [op |-> "model3d_wire_rect", args |-> <<>>, model |-> model3d_wire_rect],
     [op |-> "model3d_cone", args |-> <<>>, model |-> model3d_cone]}
    \cup {[op |-> "model3d_sphere", args |-> <<sl, st>>, model |-> model3d_sphere(sl, st)] :
             sl \in Segments, st \in Segments}
    \cup {[op |-> "model3d_grid", args |-> <<nx, ny>>, model |-> model3d_grid(nx, ny)] :
             nx \in Segments, ny \in Segments}

\* A float vector of the importer: the integers dir times 2^exp, scaled to
\* unit length when normalized (the quotient's own rounding is left out).
RawVec(dir, exp) == [dir |-> dir, exp |-> exp, normalized |-> FALSE]

\* A calloc'ed normal.
ZeroNormal == RawVec(<<0, 0, 0>>, 0)

\* The positions of the OBJ files are whole multiples of 2^PosExp.
PosExp == -7

\* 0.0001f squared, in the unit 2^(4 * PosExp) of a squared length of a
\* cross product, is 2.68...: a length, whose square is a whole number of
\* units, exceeds 0.0001f iff its square exceeds 2 units.
EPSILON_SQ == 2

\* calculate_normal(v0, v1, v2, normal): normal on return.
calculate_normal(v0, v1, v2) ==
    LET edge1 == [i \in 1..3 |-> v1[i] - v0[i]]
        edge2 == [i \in 1..3 |-> v2[i] - v0[i]]
        normal == <<edge1[2] * edge2[3] - edge1[3] * edge2[2],
                    edge1[3] * edge2[1] - edge1[1] * edge2[3],
                    edge1[1] * edge2[2] - edge1[2] * edge2[1]>>
        len_sq == normal[1] * normal[1] + normal[2] * normal[2] + normal[3] * normal[3]
    IN  [dir |-> normal, exp |-> 2 * PosExp, normalized |-> len_sq > EPSILON_SQ]

\* A corner of attrib.faces: its indices; a negative one is an index the
\* file does not give (TINYOBJ_INVALID_INDEX).
Corner(v_idx, vn_idx, vt_idx) == [v_idx |-> v_idx, vn_idx |-> vn_idx, vt_idx |-> vt_idx]

\* A triangle of corners v, with the normal indices vn and no texture index.
Triangle(v, vn) == [j \in 1..3 |-> Corner(v[j], vn[j], -1)]

\* attrib.vertices of the OBJ files, in units of 2^PosExp.
ObjPositions ==
    <<<<0, 0, 0>>, <<128, 0, 0>>, <<0, 128, 0>>,      \* 0, 1, 2: a unit triangle
      <<1, 0, 0>>, <<0, 1, 0>>,                       \* 3, 4: with 0, a tiny one
      <<64, 0, 0>>,                                   \* 5: on the line of 0 and 1
      <<2, 0, 0>>>>                                   \* 6: with 0 and 4, a small one

\* attrib.normals of the OBJ files that have normals.
ObjNormals == <<<<0, 0, 1>>, <<0, 1, 0>>>>

\* attrib.texcoords, in halves.
ObjTexcoords == <<<<0, 0>>, <<2, 2>>>>

\* What tinyobj_parse_obj leaves in attrib.
Attrib(err, normals, faces) ==
    [err |-> err, vertices |-> ObjPositions, normals |-> normals,
     texcoords |-> ObjTexcoords, faces |-> faces]

\* The OBJ files an import is given.
ObjFiles ==
    {Attrib(TRUE, <<>>, <<>>),                                        \* not parsed
     Attrib(FALSE, <<>>, <<>>),                                       \* no face
     Attrib(FALSE, <<>>, Triangle(<<0, 1, 2>>, <<-1, -1, -1>>)),      \* no normals
     Attrib(FALSE, ObjNormals, Triangle(<<0, 1, 2>>, <<0, 0, 1>>)),   \* all indexed
     Attrib(FALSE, ObjNormals, Triangle(<<0, 1, 2>>, <<0, -1, -1>>)), \* first only
     Attrib(FALSE, ObjNormals, Triangle(<<0, 1, 2>>, <<-1, 1, 1>>)),  \* all but first
     Attrib(FALSE, <<>>, Triangle(<<0, 1, 5>>, <<-1, -1, -1>>)),      \* collinear
     Attrib(FALSE, <<>>, Triangle(<<0, 3, 4>>, <<-1, -1, -1>>)),      \* tiny
     Attrib(FALSE, <<>>, Triangle(<<0, 6, 4>>, <<-1, -1, -1>>)),      \* small
     Attrib(FALSE, ObjNormals,
            Triangle(<<0, 1, 2>>, <<0, 0, 0>>) \o
            [j \in 1..3 |-> Corner(<<2, 1, 0>>[j], -1, 1)])}          \* two triangles

\* attrib.num_faces
NumFacesOf(attrib) == Len(attrib.faces) \div 3

\* The vertex the importer makes of corner k of attrib.faces, before the
\* triangle's normals are looked at (k counts from 1).
ObjCorner(attrib, k) ==
    LET f == attrib.faces[k] IN
    [pos |-> attrib.vertices[f.v_idx + 1],
     normal |-> IF f.vn_idx >= 0 THEN RawVec(attrib.normals[f.vn_idx + 1], 0)
                ELSE ZeroNormal,
     uv |-> IF f.vt_idx >= 0 THEN attrib.texcoords[f.vt_idx + 1] ELSE <<1, 1>>,
     color |-> <<255, 255, 255, 255>>]

\* The importer computes the normals of triangle i (i counts from 0).
NormalsComputed(attrib, i) ==
    Len(attrib.normals) = 0 \/ attrib.faces[i * 3 + 1].vn_idx < 0

\* model->vertices as model3d_from_obj leaves it.
ObjVertices(attrib) ==
    [k \in 1..Len(attrib.faces) |->
        LET i == (k - 1) \div 3
            c == ObjCorner(attrib, k)
        IN  IF NormalsComputed(attrib, i)
            THEN [c EXCEPT !.normal =
                     calculate_normal(ObjCorner(attrib, i * 3 + 1).pos,
                                      ObjCorner(attrib, i * 3 + 2).pos,
                                      ObjCorner(attrib, i * 3 + 3).pos)]
            ELSE c]

\* The contents of a vertex array: the constructor that wrote it, the
\* vertices themselves for an imported mesh, and how often it was rewritten.
VData(shape, args, corners) ==
    [shape |-> shape, args |-> args, corners |-> corners, edits |-> 0]

NoData == VData("none", <<>>, <<>>)

\* The names of the GL buffer objects, and one that is not in use.
BufferNames == {1, 2}
NoBuffer == [used |-> FALSE, data |-> NoData, size |-> 0]

\* The effect flags model3d_render's GL state depends on.
Effects == SUBSET {"EFFECT_NO_DEPTH_TEST", "EFFECT_SEE_BACK"}

NoDraw == [mode |-> "none", count |-> 0, buffer |-> 0, state |-> <<>>]

\* A call on the mesh: the function, its arguments, whether it uploaded the
\* vertices and the draw call it made.
MCall(op, args, uploaded, draw) ==
    [op |-> op, args |-> args, uploaded |-> uploaded, draw |-> draw]

GLStates ==
    [blend : BOOLEAN, depth_test : BOOLEAN, cull_face_enabled : BOOLEAN,
     cull_face : {"GL_BACK", "GL_FRONT"}]

\* No mesh is being worked on (the other specifications).
RenderIdle ==
    /\ mesh = NoMesh("unalloc")
    /\ vdata = NoData
    /\ gpu = [b \in BufferNames |-> NoBuffer]
    /\ glstate = [blend |-> FALSE, depth_test |-> FALSE, cull_face_enabled |-> FALSE,
                  cull_face |-> "GL_BACK"]
    /\ mcall = MCall("start", <<>>, FALSE, NoDraw)

\* No mesh yet; the GL context is in any state, and buffer 1 may be another
\* caller's.
RenderStart ==
    /\ mesh = NoMesh("unalloc")
    /\ vdata = NoData
    /\ gpu \in {[b \in BufferNames |-> NoBuffer],
                [b \in BufferNames |->
                    IF b = 1 THEN [used |-> TRUE, data |-> VData("other", <<>>, <<>>),
                                   size |-> 1]
                    ELSE NoBuffer]}
    /\ glstate \in GLStates
    /\ mcall = MCall("start", <<>>, FALSE, NoDraw)

\* A procedural constructor builds the mesh.
MeshBuild ==
    /\ mesh.st # "live"
    /\ \E c \in ProceduralMeshes :
          /\ mesh' = c.model
          /\ vdata' = VData(c.op, c.args, <<>>)
          /\ mcall' = MCall(c.op, c.args, FALSE, NoDraw)
    /\ UNCHANGED <<gpu, glstate>>
    /\ UNCHANGED apivars
    /\ UNCHANGED slicevars

\* model3d_from_obj(path), attrib being what the file parses to.
MeshImport(attrib) ==
    /\ mesh.st # "live"
    /\ LET model == model3d_from_obj(attrib.err, NumFacesOf(attrib)) IN
       IF model.st = "null"
       THEN /\ mcall' = MCall("model3d_from_obj", <<attrib, "NULL">>, FALSE, NoDraw)
            /\ UNCHANGED <<mesh, vdata>>
       ELSE /\ mesh' = model
            /\ vdata' = VData("model3d_from_obj", <<>>, ObjVertices(attrib))
            /\ mcall' = MCall("model3d_from_obj", <<attrib, "model">>, FALSE, NoDraw)
    /\ UNCHANGED <<gpu, glstate>>
    /\ UNCHANGED apivars
    /\ UNCHANGED slicevars

\* The mesh's owner rewrites vertices and flags the mesh, as every writer
\* of model->vertices in model3d.c does before it returns.
MeshMutate ==
    /\ mesh.st = "live"
    /\ vdata.edits < MaxEdits
    /\ vdata' = [vdata EXCEPT !.edits = @ + 1]
    /\ mesh' = [mesh EXCEPT !.dirty = TRUE]
    /\ mcall' = MCall("mutate", <<>>, FALSE, NoDraw)
    /\ UNCHANGED <<gpu, glstate>>
    /\ UNCHANGED apivars
    /\ UNCHANGED slicevars

\* glGenBuffers in this context: the lowest name not in use.
GenBufferName ==
    CHOOSE b \in BufferNames :
        ~gpu[b].used /\ \A c \in BufferNames : c < b => gpu[c].used

\* The upload is made whatever model->dirty says.
UploadNeeded_always(m) == TRUE

\* if (model3d->dirty)
UploadNeeded(m) == m.dirty

\* The GL state is set up without a look at the effect flags.
DrawState_ignores_effects(m, effects) ==
    [blend |-> TRUE,
     depth_test |-> TRUE,
     cull_face_enabled |-> m.cull,
     cull_face |-> "GL_BACK"]

\* The GL state model3d_render sets up for its draw call.
DrawState(m, effects) ==
    [blend |-> TRUE,
     depth_test |-> "EFFECT_NO_DEPTH_TEST" \notin effects,
     cull_face_enabled |-> m.cull,
     cull_face |-> IF "EFFECT_SEE_BACK" \in effects THEN "GL_FRONT" ELSE "GL_BACK"]

\* glCullFace(GL_BACK); glEnable(GL_DEPTH_TEST); before the return.
RestoredState(gl) == [gl EXCEPT !.cull_face = "GL_BACK", !.depth_test = TRUE]

\* model3d_render(model3d, ..., effects)
model3d_render(effects) ==
    /\ mesh.st = "live"
    /\ IF UploadNeeded(mesh)
       THEN LET vb == IF mesh.vertex_buffer = 0 THEN GenBufferName
                      ELSE mesh.vertex_buffer
            IN  /\ gpu' = [gpu EXCEPT ![vb] = [used |-> TRUE, data |-> vdata,
                                               size |-> mesh.nb_vertices]]
                /\ mesh' = [mesh EXCEPT !.vertex_buffer = vb, !.dirty = FALSE]
       ELSE UNCHANGED <<gpu, mesh>>
    /\ mcall' = MCall("model3d_render", <<effects>>, UploadNeeded(mesh),
                      [mode |-> IF mesh.solid THEN "GL_TRIANGLES" ELSE "GL_LINES",
                       count |-> mesh.nb_vertices,
                       buffer |-> mesh'.vertex_buffer,
                       state |-> DrawState(mesh, effects)])
    /\ glstate' = RestoredState(DrawState(mesh, effects))
    /\ UNCHANGED vdata
    /\ UNCHANGED apivars
    /\ UNCHANGED slicevars

\* model3d_delete(model)
model3d_delete ==
    /\ mesh.st = "live"
    /\ gpu' = IF mesh.vertex_buffer # 0
              THEN [gpu EXCEPT ![mesh.vertex_buffer] = NoBuffer]
              ELSE gpu
    /\ mesh' = NoMesh("freed")
    /\ vdata' = NoData
    /\ mcall' = MCall("model3d_delete", <<>>, FALSE, NoDraw)
    /\ UNCHANGED glstate
    /\ UNCHANGED apivars
    /\ UNCHANGED slicevars

(***************************************************************************)
(* The registry and its callers.                                           *)
(***************************************************************************)
\* static g_model_manager = {0}; no mesh built yet.
RegistryInit ==
    /\ initialized = FALSE
    /\ models = ZeroModels
    /\ names = ZeroNames
    /\ count = 0
    /\ heap = [p \in Ptrs |-> NoMesh("unalloc")]
    /\ gl_buffers = {}
    /\ call = Call("start", 0, NULL)
    /\ ret = "void"

Init ==
    /\ RegistryInit
    /\ SlicesIdle
    /\ RenderIdle

Next ==
    \/ model_manager_init
    \/ \E err \in BOOLEAN, num_faces \in NumFaces : model_manager_load(err, num_faces)
    \/ \E id \in Ids, m \in LivePtrs \cup {NULL} : model_manager_register(id, m)
    \/ \E id \in Ids : model_manager_get(id)
    \/ model_manager_get_count
    \/ model_manager_free
    \/ NewCube
    \/ \E p \in Ptrs : RenderRegistered(p)

Spec == Init /\ [][Next]_vars

(***************************************************************************)
(* One export of an image as PNG slices.                                   *)
(***************************************************************************)
InitSlices ==
    /\ RegistryInit
    /\ SlicesStart
    /\ RenderIdle

NextSlices ==
    \/ SlicesBegin
    \/ SlicesLayerSkip
    \/ SlicesLayerEnter
    \/ SlicesVoxel
    \/ SlicesWrite

SpecSlices == InitSlices /\ [][NextSlices]_vars

(***************************************************************************)
(* One mesh: built or imported, rewritten, rendered, deleted.              *)
(***************************************************************************)
InitMesh ==
    /\ RegistryInit
    /\ SlicesIdle
    /\ RenderStart

NextMesh ==
    \/ MeshBuild
    \/ \E attrib \in ObjFiles : MeshImport(attrib)
    \/ MeshMutate
    \/ \E effects \in Effects : model3d_render(effects)
    \/ model3d_delete

SpecMesh == InitMesh /\ [][NextMesh]_vars

(***************************************************************************)
(* Properties of the registry.                                             *)
(***************************************************************************)
\* The ids of the table that hold a model.
Occupied == {i \in 1..(MODEL_MANAGER_MAX_MODELS - 1) : models[i] # NULL}

\* A step of model_manager_register(id, m).
IsRegister(id, m) == call'.op = "register" /\ call'.id = id /\ call'.model = m

C2_IdZeroRejected ==
    /\ [](models[0] = NULL)
    /\ [][ \A m \in Ptrs \cup {NULL} :
              IsRegister(0, m) =>
                  ret' = FALSE /\ models' = models /\ count' = count /\ names' = names
         ]_vars

\* C2 witness: an initialized registry holding a model refused id 0.
C2_Witness ==
    /\ call.op = "register" /\ call.id = 0 /\ call.model # NULL
    /\ initialized /\ ret = FALSE /\ count > 0

\* C3: model_manager_get_count() equals the number of occupied slots among
\* ids 1..255.
C3_CountIsOccupiedSlots ==
    model_manager_get_count_ret = IF initialized THEN Cardinality(Occupied) ELSE 0

\* C4: model_manager_register returns false when model_id is invalid or
\* when the slot already holds a model, and true only when it registered.
C4_RegisterRefusesOccupied ==
    [][ \A id \in Ids, m \in Ptrs \cup {NULL} :
          IsRegister(id, m) =>
              /\ (id = 0 \/ (initialized /\ models[id] # NULL)) => ret' = FALSE
              /\ ret' = TRUE => models'[id] = m
      ]_vars

\* C5: model_manager_get(id) changes nothing in the registry; it returns
\* NULL for id 0, for an empty slot and whenever the registry is not
\* initialized, and a mesh only for an id in 1..255 whose slot holds it.
C5_GetIsPureQuery ==
    [][ \A id \in Ids :
          (call'.op = "get" /\ call'.id = id) =>
              /\ UNCHANGED <<regvars, meshvars>>
              /\ (id = 0 \/ ~initialized \/ models[id] = NULL) => ret' = NULL
              /\ ret' # NULL =>
                    /\ id \in 1..(MODEL_MANAGER_MAX_MODELS - 1)
                    /\ initialized
                    /\ models[id] = ret'
      ]_vars

\* C5 witness: get returned NULL for an empty slot of a registry that holds
\* a model in another slot.
C5_Witness ==
    /\ call.op = "get" /\ call.id = MODEL_MANAGER_MAX_MODELS - 1 /\ ret = NULL
    /\ initialized /\ models[1] # NULL /\ models[call.id] = NULL

\* C6: model_manager_init on an initialized registry changes no slot, no
\* name and not the count.
C6_SecondInitIsNoOp ==
    [][ (call'.op = "init" /\ initialized) =>
            /\ models' = models /\ names' = names /\ count' = count
            /\ initialized'
      ]_vars

\* C6 witness: init has just returned and the registrations are still there.
C6_Witness ==
    /\ call.op = "init" /\ initialized
    /\ models[1] # NULL /\ names[1] = "Lightbulb" /\ count > 0

C8_FailedImportLeavesSlot ==
    [][ (call'.op = "load" /\ (call'.err \/ call'.num_faces = 0)) =>
            /\ model3d_from_obj(call'.err, call'.num_faces).st = "null"
            /\ models' = models /\ names' = names /\ count' = count
            /\ heap' = heap
      ]_vars

\* C8 witness: a load on an initialized, empty registry found no triangle
\* and slot 1 is still empty and unnamed.
C8_Witness ==
    /\ call.op = "load" /\ ~call.err /\ call.num_faces = 0
    /\ initialized /\ models[1] = NULL /\ names[1] = NoName /\ count = 0

(***************************************************************************)
(* Properties of the slice compositor.                                     *)
(***************************************************************************)
\* The cells of the raster, as <<x, y, z>>.
Cells == (0..(w - 1)) \X (0..(h - 1)) \X (0..(d - 1))

\* The position in the volumes of cell cl.
CellPos(cl) == <<cl[1] + start_pos[1], cl[2] + start_pos[2], cl[3] + start_pos[3]>>

\* The material alpha of layer l.
LayerAlpha(l) == IF l.material.present THEN l.material.base_color3 ELSE FOne

\* The float f as a fraction <<numerator, denominator>> in lowest terms.
RECURSIVE FRatio(_)
FRatio(f) ==
    IF f[1] = 0 THEN <<0, 1>>
    ELSE IF f[2] >= 0 THEN <<f[1] * Pow2(f[2]), 1>>
    ELSE IF f[1] % 2 = 0 THEN FRatio(<<f[1] \div 2, f[2] + 1>>)
    ELSE <<f[1], Pow2(-f[2])>>

\* Layer l has a voxel of its own at position pos.
HasVoxel(l, pos) ==
    l.visible /\ l.volume # "NULL" /\ volume_get_at(l.volume, pos)[4] # 0

\* The pixel at position pos after the first n layers of ls, in list order,
\* each blended over what the earlier ones left.
RECURSIVE RefPixel(_, _, _)
RefPixel(ls, n, pos) ==
    IF n = 0 THEN <<0, 0, 0, 0>>
    ELSE LET below == RefPixel(ls, n - 1, pos) IN
         IF HasVoxel(ls[n], pos)
         THEN CHOOSE px \in BlendOutcomes(below, volume_get_at(ls[n].volume, pos),
                                          LayerAlpha(ls[n])) : TRUE
         ELSE below

\* The list ls in reverse order.
Reversed(ls) == [i \in 1..Len(ls) |-> ls[Len(ls) + 1 - i]]

\* Porter-Duff "over" in exact arithmetic: voxel c of effective alpha
\* (c[4] / 255) * (ma[1] / ma[2]) over pixel px.  With S = c[4] * ma[1] and
\* T = 255 * ma[2], the output alpha times 255 is OverAlphaNum / T and
\* channel i is OverChanNum / OverAlphaNum.
OverAlphaNum(px, c, ma) ==
    255 * c[4] * ma[1] + px[4] * (255 * ma[2] - c[4] * ma[1])
OverChanNum(px, c, ma, i) ==
    255 * c[i] * c[4] * ma[1] + px[i] * px[4] * (255 * ma[2] - c[4] * ma[1])

Abs(n) == IF n >= 0 THEN n ELSE -n

\* Pixel res is the over-composite of c on px, each channel to within one
\* unit; px itself when the output alpha is 0.
IsOver(res, px, c, ma) ==
    LET na == OverAlphaNum(px, c, ma) IN
    IF na = 0 THEN res = px
    ELSE /\ Abs(res[4] * 255 * ma[2] - na) <= 255 * ma[2]
         /\ \A i \in 1..3 : Abs(res[i] * na - OverChanNum(px, c, ma, i)) <= na

RedLayer == [visible |-> TRUE, volume |-> "red", material |-> NoMaterial]
HalfGreenLayer ==
    [visible |-> TRUE, volume |-> "green",
     material |-> [present |-> TRUE, base_color3 |-> FHalf]]

\* C9: layers are composited in list order, first layer at the bottom: when
\* the loop stands at layer n the raster is the first n - 1 layers blended
\* in that order; each blend is the over-composite of the layer's voxel,
\* with the layer's own material alpha, on the pixel the earlier layers
\* left; opaque red below half-alpha green gives green over red,
\* (127, 127, 0, 255), which is not what the reverse order gives.
C9_LayersInOrder ==
    /\ [](pc \in {"layers", "done"} =>
            \A cl \in Cells :
                img[CellIndex(cl[1], cl[2], cl[3])] =
                    RefPixel(layers, layer - 1, CellPos(cl)))
    /\ [][ pc = "voxels" =>
              LET idx == CellIndex(x, y, z)
                  l == layers[layer]
                  c == volume_get_at(l.volume, CellPos(<<x, y, z>>))
              IN  c[4] # 0 => IsOver(img'[idx], img[idx], c, FRatio(LayerAlpha(l)))
         ]_vars
    /\ [](pc = "done" =>
            /\ layers = <<RedLayer, HalfGreenLayer>> =>
                  \A cl \in Cells :
                     /\ img[CellIndex(cl[1], cl[2], cl[3])] = <<127, 127, 0, 255>>
                     /\ img[CellIndex(cl[1], cl[2], cl[3])] #
                            RefPixel(Reversed(layers), Len(layers), CellPos(cl))
            /\ layers = <<HalfGreenLayer, RedLayer>> =>
                  \A cl \in Cells :
                     img[CellIndex(cl[1], cl[2], cl[3])] = <<255, 0, 0, 255>>)

\* C9 witness: the export of opaque red below half-alpha green is done and
\* the raster holds green over red.
C9_Witness ==
    /\ pc = "done" /\ layers = <<RedLayer, HalfGreenLayer>>
    /\ Cells # {}
    /\ \A cl \in Cells : img[CellIndex(cl[1], cl[2], cl[3])] = <<127, 127, 0, 255>>

\* C10: while the loop stands at a layer that is invisible or has no
\* volume the raster does not change; a pass over a cell changes no other
\* pixel, and not that one either when the voxel's alpha is 0 or the output
\* alpha is 0; a pixel no layer has a voxel of non-zero effective alpha for
\* ends as (0, 0, 0, 0).
C10_SkipsLeavePixel ==
    /\ [][ (layer \in 1..Len(layers) /\
              (~layers[layer].visible \/ layers[layer].volume = "NULL"))
           => img' = img ]_vars
    /\ [][ pc = "voxels" =>
              LET idx == CellIndex(x, y, z)
                  l == layers[layer]
                  c == volume_get_at(l.volume, CellPos(<<x, y, z>>))
              IN  /\ \A j \in DOMAIN img : j # idx => img'[j] = img[j]
                  /\ DOMAIN img' = DOMAIN img
                  /\ (c[4] = 0 \/ OverAlphaNum(img[idx], c, FRatio(LayerAlpha(l))) = 0)
                        => img'[idx] = img[idx]
         ]_vars
    /\ [](pc = "done" =>
            \A cl \in Cells :
                (\A n \in 1..Len(layers) :
                    ~(HasVoxel(layers[n], CellPos(cl)) /\ FPositive(LayerAlpha(layers[n]))))
                => img[CellIndex(cl[1], cl[2], cl[3])] = <<0, 0, 0, 0>>)

\* C10 witness: the export of a sparse layer above a red one is done; the
\* cells the sparse layer has no voxel for are as the red layer left them,
\* the others are not.
C10_Witness ==
    /\ pc = "done" /\ Len(layers) = 2
    /\ layers[1] = RedLayer
    /\ layers[2].visible /\ layers[2].volume = "sparse"
    /\ \E cl \in Cells :
          /\ ~HasVoxel(layers[2], CellPos(cl))
          /\ img[CellIndex(cl[1], cl[2], cl[3])] = <<255, 0, 0, 255>>
    /\ \E cl \in Cells :
          /\ HasVoxel(layers[2], CellPos(cl))
          /\ img[CellIndex(cl[1], cl[2], cl[3])] # <<255, 0, 0, 255>>

\* The box has a positive half extent on every axis.
PositiveBox == \A i \in 1..3 : box.he[i] > 0

\* The raster's dimensions, per axis.
Dims == <<w, h, d>>

\* The part of C11 on the raster's layout, for a box of positive half
\* extents: the buffer holds the pixels 0 .. w*h*d - 1, the cell index maps
\* the cells one-to-one onto them, no write fell outside the buffer, a pass
\* over a cell changes no pixel but that cell's, and the image is written
\* as w*d columns by h rows.
C11_Layout ==
    /\ []((pc # "start" /\ PositiveBox) =>
            /\ DOMAIN img = 0..(w * h * d - 1)
            /\ \A cl \in Cells : CellIndex(cl[1], cl[2], cl[3]) \in 0..(w * h * d - 1)
            /\ \A c1, c2 \in Cells :
                  CellIndex(c1[1], c1[2], c1[3]) = CellIndex(c2[1], c2[2], c2[3])
                     => c1 = c2
            /\ \A i \in 0..(w * h * d - 1) :
                  \E cl \in Cells : CellIndex(cl[1], cl[2], cl[3]) = i
            /\ ~oob)
    /\ [][ (pc = "voxels" /\ PositiveBox) =>
              \A j \in DOMAIN img : img'[j] # img[j] => j = CellIndex(x, y, z) ]_vars
    /\ []((pc = "done" /\ PositiveBox) => out.png = <<w * d, h>>)

\* C11 as stated: for a box of positive half extents the raster's width,
\* height and depth are equal to 2 x half extent (half extents are in
\* quarters of a voxel here, so 2 x dimension = half extent), with the
\* layout above.
C11_DimsAreTwiceHalfExtent ==
    /\ []((pc # "start" /\ PositiveBox) => \A i \in 1..3 : 2 * Dims[i] = box.he[i])
    /\ C11_Layout

\* C11, amended: the raster's width, height and depth are 2 x half extent
\* cut down to a whole number (equal to it when it is whole), with the
\* layout above.
C11_DimsAreTruncated ==
    /\ []((pc # "start" /\ PositiveBox) =>
            \A i \in 1..3 :
               /\ 2 * Dims[i] <= box.he[i]
               /\ box.he[i] < 2 * Dims[i] + 2
               /\ box.he[i] % 2 = 0 => 2 * Dims[i] = box.he[i])
    /\ C11_Layout

\* C11 witness: the export of the 2 x 2 x 3 box with an opaque layer is
\* done; every one of its 12 pixels was written and the image is 6 x 2.
C11_Witness ==
    /\ pc = "done" /\ PositiveBox
    /\ Dims = <<2, 2, 3>>
    /\ \A i \in 1..3 : 2 * Dims[i] = box.he[i]
    /\ layers = <<RedLayer>>
    /\ \A i \in 0..11 : img[i] = <<255, 0, 0, 255>>
    /\ out.png = <<6, 2>>

\* The layers of the list that the loop composites.
Composited == {n \in 1..Len(layers) : ~LayerSkipped(layers[n])}

\* The export is done and composited a single layer.
SingleLayerDone == pc = "done" /\ Cardinality(Composited) = 1

\* That single layer.
TheLayer == layers[CHOOSE n \in Composited : TRUE]

\* The alpha of pixel px is (a / 255) * m * 255, with m the fraction ma, to
\* within one unit.
AlphaWithinOne(px, a, ma) == Abs(px[4] * ma[2] - a * ma[1]) <= ma[2]

OpaqueRed == <<255, 0, 0, 255>>

\* C12 as stated: after the export of a single layer of material alpha m,
\* the pixel of a voxel (r, g, b, a), a > 0, has the colour (r, g, b)
\* exactly and the alpha (a / 255) * m * 255 to within one unit.
C12_SingleLayerExactColour ==
    [](SingleLayerDone =>
         \A cl \in Cells :
            LET c == volume_get_at(TheLayer.volume, CellPos(cl))
                px == img[CellIndex(cl[1], cl[2], cl[3])]
            IN  c[4] > 0 =>
                   /\ \A i \in 1..3 : px[i] = c[i]
                   /\ AlphaWithinOne(px, c[4], FRatio(LayerAlpha(TheLayer))))

\* C12, amended: with m > 0 each colour channel is the voxel's or one
\* below it (the quotient is cut down to a whole number) and the alpha is
\* (a / 255) * m * 255 to within one unit; with m = 0 the pixel stays
\* (0, 0, 0, 0); opaque red gives exactly (255, 0, 0, 255) with m = 1 and
\* (255, 0, 0, 127) with m = 0.5.
C12_SingleLayerColourWithinOne ==
    [](SingleLayerDone =>
         \A cl \in Cells :
            LET c == volume_get_at(TheLayer.volume, CellPos(cl))
                px == img[CellIndex(cl[1], cl[2], cl[3])]
                m == LayerAlpha(TheLayer)
            IN  c[4] > 0 =>
                   /\ FPositive(m) =>
                         /\ \A i \in 1..3 : px[i] \in {c[i], c[i] - 1}
                         /\ AlphaWithinOne(px, c[4], FRatio(m))
                   /\ ~FPositive(m) => px = <<0, 0, 0, 0>>
                   /\ (c = OpaqueRed /\ m = FOne) => px = OpaqueRed
                   /\ (c = OpaqueRed /\ m = FHalf) => px = <<255, 0, 0, 127>>)

\* C12 witness: a single opaque red layer of material alpha 0.5 was
\* exported and left (255, 0, 0, 127).
C12_Witness ==
    /\ SingleLayerDone
    /\ TheLayer.volume = "red" /\ LayerAlpha(TheLayer) = FHalf
    /\ Cells # {}
    /\ \A cl \in Cells : img[CellIndex(cl[1], cl[2], cl[3])] = <<255, 0, 0, 127>>

\* C13: the companion JSON file's "width", "height" and "depth" keys carry
\* the raster's w, h and d, w*d x h being the size of the written image
\* (stated for the boxes of positive half extents, the ordinary ones).
C13_JsonCarriesRasterDims ==
    []((pc = "done" /\ PositiveBox) =>
          (out.json = <<w, h, d>> /\ out.png = <<w * d, h>>))

\* C14: for a box with a zero or negative half extent on some axis the
\* raster is zero-sized: the allocated pixel count w*h*d is 0, the written
\* image has no negative dimension and no pixel (the claim says more, that
\* both dimensions are 0), and no pixel is written.
C14_MalformedBoxGivesEmptyRaster ==
    /\ []((pc # "start" /\ ~PositiveBox) =>
            /\ w * h * d = 0
            /\ DOMAIN img = {}
            /\ ~oob)
    /\ []((pc = "done" /\ ~PositiveBox) =>
            /\ out.png[1] >= 0 /\ out.png[2] >= 0
            /\ out.png[1] * out.png[2] = 0)

(***************************************************************************)
(* Properties of a mesh and of its rendering.                              *)
(***************************************************************************)
\* The last step was a call of model3d_render.
Rendered == mcall.op = "model3d_render"

\* The functions that return a new mesh.
Constructors == {c.op : c \in ProceduralMeshes} \cup {"model3d_from_obj"}

\* C15: a render uploads the full vertex array iff the mesh is dirty on
\* entry and leaves it clean; the first render of a mesh just built
\* uploads; a render right after a render uploads nothing; a mesh's buffer
\* handle, once generated, is never replaced, and a buffer is only generated
\* for a mesh that has none; a clean mesh's buffer holds the vertex array
\* as it is now.
C15_UploadIffDirty ==
    /\ [][ Rendered' =>
              /\ mcall'.uploaded <=> mesh.dirty
              /\ mesh.dirty =>
                    /\ gpu'[mesh'.vertex_buffer] =
                          [used |-> TRUE, data |-> vdata, size |-> mesh.nb_vertices]
                    /\ ~mesh'.dirty
              /\ ~mesh.dirty => (gpu' = gpu /\ mesh' = mesh)
              /\ (mcall.op \in Constructors /\ mesh.st = "live") => mcall'.uploaded
              /\ Rendered => ~mcall'.uploaded
         ]_vars
    /\ [][ (mesh.st = "live" /\ mesh'.st = "live") =>
              /\ mesh.vertex_buffer # 0 => mesh'.vertex_buffer = mesh.vertex_buffer
              /\ \A b \in BufferNames :
                    (gpu'[b].used /\ ~gpu[b].used) =>
                       (mesh.vertex_buffer = 0 /\ mesh'.vertex_buffer = b)
         ]_vars
    /\ []((mesh.st = "live" /\ ~mesh.dirty) =>
             /\ mesh.vertex_buffer # 0
             /\ gpu[mesh.vertex_buffer] =
                   [used |-> TRUE, data |-> vdata, size |-> mesh.nb_vertices])

\* C15 witness: a mesh was rendered, rewritten, rendered again and then
\* rendered once more, which uploaded nothing; its buffer holds the
\* rewritten vertices.
C15_Witness ==
    /\ Rendered /\ ~mcall.uploaded
    /\ mesh.st = "live" /\ ~mesh.dirty
    /\ vdata.edits > 0
    /\ gpu[mesh.vertex_buffer].data = vdata

\* C16: when model3d_render has returned, the cull face is back and the
\* depth test is enabled, whatever the flags; at its draw call the depth
\* test was disabled iff NoDepthTest was set, face culling was enabled iff
\* mesh.cull, and the cull face was front iff SeeBack was set.
C16_GLStateRestored ==
    [](Rendered =>
         LET effects == mcall.args[1]
             at_draw == mcall.draw.state
         IN  /\ glstate.cull_face = "GL_BACK"
             /\ glstate.depth_test
             /\ ~at_draw.depth_test <=> "EFFECT_NO_DEPTH_TEST" \in effects
             /\ at_draw.cull_face_enabled <=> mesh.cull
             /\ at_draw.cull_face = "GL_FRONT" <=> "EFFECT_SEE_BACK" \in effects)

\* C16 witness: a culled mesh was rendered with NoDepthTest and SeeBack;
\* the draw call saw the front cull face and no depth test, and the context
\* is back to the back face and the depth test.
C16_Witness ==
    /\ Rendered
    /\ mcall.args[1] = {"EFFECT_NO_DEPTH_TEST", "EFFECT_SEE_BACK"}
    /\ mesh.cull
    /\ mcall.draw.state.cull_face = "GL_FRONT" /\ ~mcall.draw.state.depth_test
    /\ glstate.cull_face = "GL_BACK" /\ glstate.depth_test

\* The last step was a successful import.
Imported == mcall.op = "model3d_from_obj" /\ mcall.args[2] = "model"

\* (v1 - v0) x (v2 - v0)
Cross(v0, v1, v2) ==
    <<(v1[2] - v0[2]) * (v2[3] - v0[3]) - (v1[3] - v0[3]) * (v2[2] - v0[2]),
      (v1[3] - v0[3]) * (v2[1] - v0[1]) - (v1[1] - v0[1]) * (v2[3] - v0[3]),
      (v1[1] - v0[1]) * (v2[2] - v0[2]) - (v1[2] - v0[2]) * (v2[1] - v0[1])>>

\* The cross product of triangle i of the OBJ file attrib (i from 0).
TriangleCross(attrib, i) ==
    Cross(attrib.vertices[attrib.faces[i * 3 + 1].v_idx + 1],
          attrib.vertices[attrib.faces[i * 3 + 2].v_idx + 1],
          attrib.vertices[attrib.faces[i * 3 + 3].v_idx + 1])

\* C17: in an imported mesh every corner that carries no normal index has
\* the direction of its triangle's cross product (v1 - v0) x (v2 - v0) as
\* its normal, not the zero placeholder when the triangle is not
\* degenerate; a corner with a normal index in a triangle whose first
\* corner has one too keeps its indexed normal.
C17_AbsentNormalsSynthesized ==
    [](Imported =>
         LET attrib == mcall.args[1] IN
         \A k \in 1..Len(attrib.faces) :
            LET i == (k - 1) \div 3
                cross == TriangleCross(attrib, i)
                corner == attrib.faces[k]
                normal == vdata.corners[k].normal
            IN  /\ corner.vn_idx < 0 =>
                      /\ normal.dir = cross
                      /\ cross # <<0, 0, 0>> => normal # ZeroNormal
                /\ (corner.vn_idx >= 0 /\ attrib.faces[i * 3 + 1].vn_idx >= 0) =>
                      normal = RawVec(attrib.normals[corner.vn_idx + 1], 0))

\* C18: where the importer computes a triangle's normal, the 3 corners get
\* the zero vector when the cross product's length does not exceed 1e-4,
\* and the cross product scaled to unit length otherwise.
C18_ShortCrossGivesZeroNormal ==
    [](Imported =>
         LET attrib == mcall.args[1] IN
         \A k \in 1..Len(attrib.faces) :
            LET i == (k - 1) \div 3
                cross == TriangleCross(attrib, i)
                len_sq == cross[1] * cross[1] + cross[2] * cross[2] + cross[3] * cross[3]
                normal == vdata.corners[k].normal
            IN  (Len(attrib.normals) = 0 \/ attrib.faces[i * 3 + 1].vn_idx < 0) =>
                   IF len_sq <= EPSILON_SQ
                   THEN normal.dir = <<0, 0, 0>>
                   ELSE normal.dir = cross /\ normal.normalized)

\* C19: a mesh just returned by a constructor or by a successful import is
\* dirty and has no GPU buffer; the vertex count of a live mesh is a
\* multiple of 3 when solid, of 2 when not; it is 36 for the cube,
\* 6 * slices * stacks for the sphere, (nx + ny + 2) * 2 for the grid, and
\* 3 * the number of triangles, with solid and cull set, for an import.
C19_ConstructedMeshes ==
    /\ []((mcall.op \in Constructors /\ mesh.st = "live") =>
            /\ mesh.dirty
            /\ mesh.vertex_buffer = 0
            /\ mcall.op = "model3d_cube" => mesh.nb_vertices = 36
            /\ mcall.op = "model3d_sphere" =>
                  mesh.nb_vertices = 6 * mcall.args[1] * mcall.args[2]
            /\ mcall.op = "model3d_grid" =>
                  mesh.nb_vertices = (mcall.args[1] + mcall.args[2] + 2) * 2
            /\ mcall.op = "model3d_from_obj" =>
                  /\ mesh.nb_vertices = 3 * NumFacesOf(mcall.args[1])
                  /\ mesh.nb_vertices = Len(vdata.corners)
                  /\ mesh.solid /\ mesh.cull)
    /\ [](mesh.st = "live" =>
            /\ mesh.solid => mesh.nb_vertices % 3 = 0
            /\ ~mesh.solid => mesh.nb_vertices % 2 = 0)

\* C19 witness: model3d_sphere(1, 1) has just returned a mesh of 6
\* vertices that is not solid.
C19_Witness ==
    /\ mcall.op = "model3d_sphere" /\ mcall.args = <<1, 1>>
    /\ mesh.st = "live" /\ ~mesh.solid /\ mesh.nb_vertices = 6
    /\ mesh.dirty /\ mesh.vertex_buffer = 0

(***************************************************************************)
(* The registry as the selection panel reads it.                           *)
(***************************************************************************)
\* C20: at any time the number of ids in 1..255 with a display name is
\* model_manager_get_count(), so the selection panel, which allocates
\* 1 + count entries and fills one per named id, fills every entry it
\* allocated and has an entry for every named id.
C20_NamedIdsMatchCount ==
    [](/\ Cardinality(NamedIds) = model_manager_get_count_ret
       /\ grid_idx = nb_models
       /\ Cardinality(NamedIds) <= nb_models - 1)

====
